---- MODULE Spec2Model ----
(***************************************************************************)
(* A model of the Skia Infra recipe infra/bots/recipes/swarm_infra.py:     *)
(* RunSteps as a state machine with one action per api.step call, and the  *)
(* retry helper as its loop iteration and its for-else clause.             *)
(*                                                                         *)
(* A builder name is modelled by the set of the keywords it contains, so   *)
(* that  'Large' in builder  is  "Large" \in builder.  Every api.step call *)
(* draws its outcome (success, or StepFailure raised) nondeterministically *)
(* and is appended to log together with the command line, the working     *)
(* directory and the environment of the api.context it ran in.             *)
(*                                                                         *)
(* The presubmit checks of PRESUBMIT.py are a second state machine with    *)
(* one action per check called by CheckChange and one per entry point; a   *)
(* change is a set of affected files, each with its extension and what the *)
(* checks find in it.                                                      *)
(***************************************************************************)
EXTENDS Naturals, Sequences, FiniteSets, TLC

VARIABLES
    builder,   \* api.properties['buildername']: the keywords it contains
    attempts,  \* retry's parameter `attempts`
    pc,        \* the api.step call RunSteps is about to make, or "done"
    i,         \* retry: number of completed iterations of the for loop
    exc,       \* retry: the local variable exc
    target,    \* index of the for loop over install_targets
    env,       \* the local dict env of RunSteps
    pending,   \* the exception in flight while the finally clause runs
    raised,    \* the exception that left RunSteps (None: it returned)
    log,       \* the api.step calls made so far, in order
    hook,      \* PRESUBMIT.py: the entry point called, "upload" or "commit"
    change,    \* PRESUBMIT.py: the affected files of the change
    ppc,       \* PRESUBMIT.py: the check about to be called, or "done"
    results,   \* PRESUBMIT.py: the list `results`
    calls      \* PRESUBMIT.py: the canned checks called, with their file filter

\* The variables of the presubmit checks.
pvars == <<hook, change, ppc, results, calls>>

vars == <<builder, attempts, pc, i, exc, target, env, pending, raised, log, pvars>>

-----------------------------------------------------------------------------
(* Bounds and program constants *)

\* Largest value of retry's parameter `attempts` explored by SpecRetry.
MaxAttempts == 4

\* retry(api, 3, 'go mod download', ...)
GoModAttempts == 3

\* The keywords RunSteps looks for in the builder name.
Keywords == {"Build", "Race", "Large", "Medium", "Small"}

-----------------------------------------------------------------------------
(* Exceptions *)

None == [type |-> "None", step |-> "", attempt |-> 0]

\* api.step.StepFailure raised by the given attempt of the named step.
StepFailure(name, n) == [type |-> "StepFailure", step |-> name, attempt |-> n]

\* `raise exc` with exc = None raises TypeError instead.
TypeError == [type |-> "TypeError", step |-> "", attempt |-> 0]

-----------------------------------------------------------------------------
(* Paths *)

StartDir == "[START_DIR]"

Join(base, part) == base \o "/" \o part

depot_tools == Join(Join(StartDir, "recipe_bundle"), "depot_tools")

gopath == Join(Join(StartDir, "cache"), "gopath")

infra_dir == Join(StartDir, "buildbot")

go_cache == Join(Join(StartDir, "cache"), "go_cache")

go_root == Join(Join(StartDir, "go"), "go")

go_bin == Join(go_root, "bin")

run_emulators == Join(Join(Join(infra_dir, "scripts"), "run_emulators"), "run_emulators")

-----------------------------------------------------------------------------
(* Environment *)

\* api.context(cwd=infra_dir) without env: no override of the environment.
NoEnv == [k \in {} |-> ""]

\* api.path.pathsep.join(list): a PATH value is kept as its list of segments.
PathJoin(segments) == segments

BaseEnv ==
    [k \in {"CHROME_HEADLESS", "DOCKER_CONFIG", "GOCACHE", "GOFLAGS", "GOROOT",
            "GOPATH", "GIT_USER_AGENT", "PATH"} |->
        CASE k = "CHROME_HEADLESS" -> "1"
          [] k = "DOCKER_CONFIG"   -> "/home/chrome-bot/.docker"
          [] k = "GOCACHE"         -> go_cache
          [] k = "GOFLAGS"         -> "-mod=readonly"
          [] k = "GOROOT"          -> go_root
          [] k = "GOPATH"          -> gopath
          [] k = "GIT_USER_AGENT"  -> "git/1.9.1"
          [] k = "PATH"            ->
                PathJoin(<<go_bin,
                           Join(gopath, "bin"),
                           Join(Join(StartDir, "gcloud_linux"), "bin"),
                           Join(Join(StartDir, "protoc"), "bin"),
                           Join(Join(Join(StartDir, "node"), "node"), "bin"),
                           Join(StartDir, "cockroachdb"),
                           "%(PATH)s">>)]

\* env[k] = v
SetItem(e, k, v) == (k :> v) @@ e

\* The assignments without the one for cockroachdb.
EmulatorEnvNoCockroach(e) ==
    LET e1 == SetItem(e,  "DATASTORE_EMULATOR_HOST",   "localhost:8891")
        e2 == SetItem(e1, "BIGTABLE_EMULATOR_HOST",    "localhost:8892")
        e3 == SetItem(e2, "PUBSUB_EMULATOR_HOST",      "localhost:8893")
    IN  SetItem(e3, "FIRESTORE_EMULATOR_HOST",   "localhost:8894")

\* The assignments that follow 'start the cloud emulators'.
EmulatorEnv(e) ==
    LET e1 == SetItem(e,  "DATASTORE_EMULATOR_HOST",   "localhost:8891")
        e2 == SetItem(e1, "BIGTABLE_EMULATOR_HOST",    "localhost:8892")
        e3 == SetItem(e2, "PUBSUB_EMULATOR_HOST",      "localhost:8893")
        e4 == SetItem(e3, "FIRESTORE_EMULATOR_HOST",   "localhost:8894")
    IN  SetItem(e4, "COCKROACHDB_EMULATOR_HOST", "localhost:8895")

\* depot_tools joined in front of PATH.
TestEnvPrepends(e) ==
    LET e1 == SetItem(e, "SKIABOT_TEST_DEPOT_TOOLS", depot_tools)
    IN  SetItem(e1, "PATH", PathJoin(<<depot_tools>> \o e1["PATH"]))

\* "# Run tests.": SKIABOT_TEST_DEPOT_TOOLS, and depot_tools joined to PATH.
TestEnv(e) ==
    LET e1 == SetItem(e, "SKIABOT_TEST_DEPOT_TOOLS", depot_tools)
    IN  SetItem(e1, "PATH", PathJoin(e1["PATH"] \o <<depot_tools>>))

-----------------------------------------------------------------------------
(* Builder classification *)

\* kw in builder
Contains(kw, b) == kw \in b

\* ('Large' in builder) or ('Race' in builder)
UsesEmulators(b) == Contains("Large", b) \/ Contains("Race", b)

\* if 'Build' in builder: 'make all', else: 'run_unittests'
MainStep(b) == IF Contains("Build", b) THEN "make all" ELSE "run_unittests"

\* The elif chain with 'Medium' tested before 'Large'.
UnittestCmdMediumFirst(b) ==
    LET cmd == <<"go", "run", "./run_unittests.go", "--alsologtostderr">>
    IN  IF Contains("Race", b) THEN cmd \o <<"--race", "--large", "--medium", "--small">>
        ELSE IF Contains("Medium", b) THEN Append(cmd, "--medium")
        ELSE IF Contains("Large", b) THEN Append(cmd, "--large")
        ELSE Append(cmd, "--small")

\* The cmd list of 'run_unittests', built by the if/elif chain.
UnittestCmd(b) ==
    LET cmd == <<"go", "run", "./run_unittests.go", "--alsologtostderr">>
    IN  IF Contains("Race", b) THEN cmd \o <<"--race", "--large", "--medium", "--small">>
        ELSE IF Contains("Large", b) THEN Append(cmd, "--large")
        ELSE IF Contains("Medium", b) THEN Append(cmd, "--medium")
        ELSE Append(cmd, "--small")

install_targets ==
    <<"github.com/golang/protobuf/protoc-gen-go",
      "github.com/kisielk/errcheck",
      "golang.org/x/tools/cmd/goimports",
      "golang.org/x/tools/cmd/stringer",
      "github.com/GeertJohan/go.rice/rice",
      "github.com/twitchtv/twirp/protoc-gen-twirp",
      "go.larrymyers.com/protoc-gen-twirp_typescript">>

\* 'go install %s' % target
InstallName(t) == "go install " \o t

-----------------------------------------------------------------------------
(* api.step *)

\* One executed api.step call: what ran, where, with which environment, on
\* which attempt, and whether it succeeded.
StepRecord(name, cmd, ctxEnv, n, ok) ==
    [name |-> name, cmd |-> cmd, cwd |-> infra_dir, env |-> ctxEnv,
     attempt |-> n, ok |-> ok]

\* api.step(name, cmd) inside api.context(cwd=infra_dir, env=ctxEnv).
Step(name, cmd, ctxEnv, n, ok) ==
    log' = Append(log, StepRecord(name, cmd, ctxEnv, n, ok))

\* An exception leaves RunSteps: the run is over.
Raise(e) ==
    /\ raised' = e
    /\ pc' = "done"

\* A plain api.step call of the straight-line part of RunSteps: on success
\* control goes on to `next`, on failure StepFailure leaves RunSteps.
PlainStep(name, cmd, ctxEnv, next) ==
    /\ pc = name
    /\ \E ok \in BOOLEAN :
        /\ Step(name, cmd, ctxEnv, 1, ok)
        /\ IF ok THEN pc' = next /\ raised' = raised
                 ELSE Raise(StepFailure(name, 1))

-----------------------------------------------------------------------------
(* Init *)

InitLocals ==
    /\ pc = "git init"
    /\ i = 0
    /\ exc = None
    /\ target = 1
    /\ env = BaseEnv
    /\ pending = None
    /\ raised = None
    /\ log = <<>>

\* No presubmit check is running.
PresubmitIdle ==
    /\ hook = "none"
    /\ change = {}
    /\ ppc = "idle"
    /\ results = <<>>
    /\ calls = <<>>

Init ==
    /\ builder \in SUBSET Keywords
    /\ attempts = GoModAttempts
    /\ InitLocals
    /\ PresubmitIdle

\* RunSteps with retry's parameter `attempts` drawn from 0 .. MaxAttempts.
InitRetry ==
    /\ builder \in SUBSET Keywords
    /\ attempts \in 0 .. MaxAttempts
    /\ InitLocals
    /\ PresubmitIdle

-----------------------------------------------------------------------------
(* RunSteps *)

GitInit ==
    /\ PlainStep("git init", <<"git", "init">>, NoEnv, "git add")
    /\ UNCHANGED <<pvars, builder, attempts, i, exc, target, env, pending>>

GitAdd ==
    /\ PlainStep("git add", <<"git", "add", ".">>, NoEnv, "git commit")
    /\ UNCHANGED <<pvars, builder, attempts, i, exc, target, env, pending>>

GitCommit ==
    /\ PlainStep("git commit",
                 <<"git", "commit", "-m", "Fake commit to satisfy recipe tests">>,
                 NoEnv, "which go")
    /\ UNCHANGED <<pvars, builder, attempts, i, exc, target, env, pending>>

WhichGo ==
    /\ PlainStep("which go", <<"which", "go">>, env, "go mod download")
    /\ UNCHANGED <<pvars, builder, attempts, i, exc, target, env, pending>>

\* The emulators started for Large builders only.
AfterInstallLargeOnly ==
    IF Contains("Large", builder)
    THEN pc' = "start the cloud emulators" /\ env' = env
    ELSE pc' = MainStep(builder) /\ env' = TestEnv(env)

\* Where control goes after the loop over install_targets: the emulators are
\* started for Large and Race builders; otherwise env is completed for the
\* tests and the main step follows.
AfterInstall ==
    IF UsesEmulators(builder)
    THEN pc' = "start the cloud emulators" /\ env' = env
    ELSE pc' = MainStep(builder) /\ env' = TestEnv(env)

\* retry keeping the first exception instead of the last one.
RetryAttemptKeepsFirst ==
    /\ pc = "go mod download"
    /\ i < attempts
    /\ \E ok \in BOOLEAN :
        /\ Step("go mod download", <<"go", "mod", "download">>, env, i + 1, ok)
        /\ IF ok
           THEN /\ pc' = "go install"
                /\ UNCHANGED <<i, exc>>
           ELSE /\ exc' = IF exc = None THEN StepFailure("go mod download", i + 1) ELSE exc
                /\ i' = i + 1
                /\ pc' = pc
    /\ UNCHANGED <<pvars, builder, attempts, target, env, pending, raised>>

\* retry without the `return` after a successful attempt.
RetryAttemptNoReturn ==
    /\ pc = "go mod download"
    /\ i < attempts
    /\ \E ok \in BOOLEAN :
        /\ Step("go mod download", <<"go", "mod", "download">>, env, i + 1, ok)
        /\ exc' = IF ok THEN exc ELSE StepFailure("go mod download", i + 1)
        /\ i' = i + 1
        /\ pc' = pc
    /\ UNCHANGED <<pvars, builder, attempts, target, env, pending, raised>>

\* retry: one iteration of `for _ in range(attempts)`.
RetryAttempt ==
    /\ pc = "go mod download"
    /\ i < attempts
    /\ \E ok \in BOOLEAN :
        /\ Step("go mod download", <<"go", "mod", "download">>, env, i + 1, ok)
        /\ IF ok
           THEN \* return
                /\ pc' = "go install"
                /\ UNCHANGED <<i, exc>>
           ELSE \* except api.step.StepFailure as e: exc = e
                /\ exc' = StepFailure("go mod download", i + 1)
                /\ i' = i + 1
                /\ pc' = pc
    /\ UNCHANGED <<pvars, builder, attempts, target, env, pending, raised>>

\* The else clause guarded one iteration too late.
RetryElseOffByOne ==
    /\ pc = "go mod download"
    /\ i > attempts
    /\ Raise(IF exc = None THEN TypeError ELSE exc)
    /\ UNCHANGED <<pvars, builder, attempts, i, exc, target, env, pending, log>>

\* retry returning from its else clause instead of raising.
RetryElseReturns ==
    /\ pc = "go mod download"
    /\ i >= attempts
    /\ pc' = "go install"
    /\ UNCHANGED <<pvars, builder, attempts, i, exc, target, env, pending, raised, log>>

\* The else clause raising only when an exception was caught.
RetryElseIfCaught ==
    /\ pc = "go mod download"
    /\ i >= attempts
    /\ IF exc = None THEN pc' = "go install" /\ raised' = raised ELSE Raise(exc)
    /\ UNCHANGED <<pvars, builder, attempts, i, exc, target, env, pending, log>>

\* retry: the else clause of the for loop, `raise exc`.
RetryElse ==
    /\ pc = "go mod download"
    /\ i >= attempts
    /\ Raise(IF exc = None THEN TypeError ELSE exc)
    /\ UNCHANGED <<pvars, builder, attempts, i, exc, target, env, pending, log>>

\* The install loop going on to the next target after a failed one.
GoInstallIgnoresFailure ==
    /\ pc = "go install"
    /\ target <= Len(install_targets)
    /\ \E ok \in BOOLEAN :
        /\ Step(InstallName(install_targets[target]),
                <<"go", "install", "-v", install_targets[target]>>, env, 1, ok)
        /\ raised' = raised
        /\ target' = target + 1
        /\ IF target < Len(install_targets)
           THEN pc' = pc /\ env' = env
           ELSE AfterInstall
    /\ UNCHANGED <<pvars, builder, attempts, i, exc, pending>>

\* for target in install_targets: api.step('go install %s' % target, ...)
GoInstall ==
    /\ pc = "go install"
    /\ target <= Len(install_targets)
    /\ \E ok \in BOOLEAN :
        /\ Step(InstallName(install_targets[target]),
                <<"go", "install", "-v", install_targets[target]>>, env, 1, ok)
        /\ IF ~ok
           THEN /\ Raise(StepFailure(InstallName(install_targets[target]), 1))
                /\ UNCHANGED <<target, env>>
           ELSE /\ raised' = raised
                /\ target' = target + 1
                /\ IF target < Len(install_targets)
                   THEN pc' = pc /\ env' = env
                   ELSE AfterInstall
    /\ UNCHANGED <<pvars, builder, attempts, i, exc, pending>>

StartEmulators ==
    /\ pc = "start the cloud emulators"
    /\ \E ok \in BOOLEAN :
        /\ Step("start the cloud emulators", <<run_emulators, "start">>, env, 1, ok)
        /\ IF ok
           THEN /\ env' = TestEnv(EmulatorEnv(env))
                /\ pc' = MainStep(builder)
                /\ raised' = raised
           ELSE /\ Raise(StepFailure("start the cloud emulators", 1))
                /\ env' = env
    /\ UNCHANGED <<pvars, builder, attempts, i, exc, target, pending>>

MakeAll ==
    /\ PlainStep("make all", <<"make", "all">>, env, "git diff go.mod")
    /\ UNCHANGED <<pvars, builder, attempts, i, exc, target, env, pending>>

\* A finally clause that stops the emulators unconditionally.
FinallyStopsAlways(b) == TRUE

\* A finally clause that stops the emulators for every builder but Small ones.
FinallyStopsUnlessSmall(b) == ~Contains("Small", b) \/ UsesEmulators(b)

\* Whether the finally clause of the try around 'run_unittests' has a step.
FinallyStops(b) == UsesEmulators(b)

\* try: api.step('run_unittests', cmd); control then enters the finally clause.
RunUnittests ==
    /\ pc = "run_unittests"
    /\ \E ok \in BOOLEAN :
        /\ Step("run_unittests", UnittestCmd(builder), env, 1, ok)
        /\ LET e == IF ok THEN None ELSE StepFailure("run_unittests", 1)
           IN  IF FinallyStops(builder)
               THEN /\ pending' = e
                    /\ pc' = "stop the cloud emulators"
                    /\ raised' = raised
               ELSE /\ pending' = pending
                    /\ IF ok THEN pc' = "git diff go.mod" /\ raised' = raised
                             ELSE Raise(e)
    /\ UNCHANGED <<pvars, builder, attempts, i, exc, target, env>>

\* A finally clause that loses the exception in flight (as `return` in a
\* finally clause does).
FinallyResultSwallows(inflight, e) == e

\* The exception that leaves a finally clause entered with exception
\* `inflight` whose own step ended with exception `e` (None: it succeeded).
FinallyResult(inflight, e) == IF e # None THEN e ELSE inflight

\* A finally clause that catches the failure of its own step.
StopEmulatorsCatches ==
    /\ pc = "stop the cloud emulators"
    /\ \E ok \in BOOLEAN :
        /\ Step("stop the cloud emulators", <<run_emulators, "stop">>, env, 1, ok)
        /\ IF pending = None
           THEN pc' = "git diff go.mod" /\ raised' = raised
           ELSE Raise(pending)
    /\ pending' = None
    /\ UNCHANGED <<pvars, builder, attempts, i, exc, target, env>>

\* finally: api.step('stop the cloud emulators', ...)
StopEmulators ==
    /\ pc = "stop the cloud emulators"
    /\ \E ok \in BOOLEAN :
        /\ Step("stop the cloud emulators", <<run_emulators, "stop">>, env, 1, ok)
        /\ LET e == IF ok THEN None ELSE StepFailure("stop the cloud emulators", 1)
               out == FinallyResult(pending, e)
           IN  IF out = None
               THEN pc' = "git diff go.mod" /\ raised' = raised
               ELSE Raise(out)
    /\ pending' = None
    /\ UNCHANGED <<pvars, builder, attempts, i, exc, target, env>>

\* The last statement of RunSteps: after it the function returns or raises.
GitDiff ==
    /\ PlainStep("git diff go.mod",
                 <<"git", "diff", "--no-ext-diff", "--exit-code", "go.mod">>,
                 NoEnv, "done")
    /\ UNCHANGED <<pvars, builder, attempts, i, exc, target, env, pending>>

Next ==
    \/ GitInit
    \/ GitAdd
    \/ GitCommit
    \/ WhichGo
    \/ RetryAttempt
    \/ RetryElse
    \/ GoInstall
    \/ StartEmulators
    \/ MakeAll
    \/ RunUnittests
    \/ StopEmulators
    \/ GitDiff

Spec == Init /\ [][Next]_vars

SpecRetry == InitRetry /\ [][Next]_vars

\* Every external command terminates, so a step that can be taken is taken.
FairSpec == Spec /\ WF_vars(Next)

-----------------------------------------------------------------------------
(* PRESUBMIT.py: the files of a change *)

\* Largest number of affected files of a change.
MaxFiles == 2

\* File extensions: Go, Python, JavaScript, and makefiles.
Exts == {"go", "py", "js", "mk"}

\* What a file may contain that a check reports.
Contents ==
    {{}, {"tab"}, {"nonascii"}, {"tab", "nonascii"}, {"longline"}, {"todo"},
     {"whitespace"}, {"lint"}, {"banned"}}

AffectedFiles == [ext : Exts, has : Contents]

RECURSIVE Changes(_)
\* The changes of at most n affected files.
Changes(n) ==
    IF n = 0 THEN {{}}
    ELSE LET smaller == Changes(n - 1)
         IN  smaller \cup {c \cup {f} : c \in smaller, f \in AffectedFiles}

-----------------------------------------------------------------------------
(* PRESUBMIT.py: file filters *)

\* input_api.re.compile(r'.+')
AnyPath == [kind |-> "any", ext |-> ""]

\* input_api.re.compile(r'^$')
EmptyPath == [kind |-> "empty", ext |-> ""]

\* input_api.re.compile(r'.+\.%s$' % ext)
ExtPattern(ext) == [kind |-> "ext", ext |-> ext]

\* Whether the path of file f matches the regular expression.
Matches(pattern, f) ==
    \/ pattern.kind = "any"
    \/ pattern.kind = "ext" /\ pattern.ext = f.ext

\* input_api.FilterSourceFile(x, white_list=..., black_list=...)
FilterSourceFile(f, white_list, black_list) ==
    /\ \E p \in white_list : Matches(p, f)
    /\ ~\E p \in black_list : Matches(p, f)

\* _MakeFileFilter(input_api, include_extensions, exclude_extensions)
MakeFileFilter(include_extensions, exclude_extensions) ==
    [given |-> TRUE,
     white_list |-> IF include_extensions # {}
                    THEN {ExtPattern(e) : e \in include_extensions}
                    ELSE {AnyPath},
     black_list |-> IF exclude_extensions # {}
                    THEN {ExtPattern(e) : e \in exclude_extensions}
                    ELSE {EmptyPath}]

\* A canned check called without source_file_filter.
NoFilter == [given |-> FALSE, white_list |-> {}, black_list |-> {}]

\* The files of the change a filter lets through.
AffectedSourceFiles(filter) ==
    {f \in change : FilterSourceFile(f, filter.white_list, filter.black_list)}

FILE_EXTENSIONS ==
    {"bat", "cfg", "cmd", "conf", "css", "gyp", "gypi", "htm", "html", "js",
     "json", "ps1", "py", "sh", "tac", "yaml"}

IGNORE_LINE_LENGTH == {"go", "html", "py"}

IGNORE_TABS == {"go"}

-----------------------------------------------------------------------------
(* PRESUBMIT.py: the checks *)

\* What a check returns: nothing when no file is reported, else one result.
Report(check, kind, reported) ==
    IF reported = {} THEN <<>>
    ELSE <<[check |-> check, kind |-> kind, files |-> reported]>>

\* The files among `files` that contain `what`.
Having(what, files) == {f \in files : what \in f.has}

\* results += <what the check returned>, and a record of the call.
Called(check, filter, returned, next) ==
    /\ results' = results \o returned
    /\ calls' = Append(calls, [check |-> check, source_file_filter |-> filter])
    /\ ppc' = next
    /\ UNCHANGED <<hook, change>>
    /\ UNCHANGED <<builder, attempts, pc, i, exc, target, env, pending, raised, log>>

\* results += input_api.canned_checks.RunPylint(...): the Python files.
RunPylint ==
    /\ ppc = "RunPylint"
    /\ Called("RunPylint", NoFilter,
              Report("RunPylint", "PresubmitError",
                     Having("lint", {f \in change : f.ext = "py"})),
              "CheckLongLines")

\* CheckLongLines with the filter that excludes IGNORE_LINE_LENGTH.
CheckLongLines ==
    /\ ppc = "CheckLongLines"
    /\ LET file_filter == MakeFileFilter({}, IGNORE_LINE_LENGTH)
       IN  Called("CheckLongLines", file_filter,
                  Report("CheckLongLines", "PresubmitPromptWarning",
                         Having("longline", AffectedSourceFiles(file_filter))),
                  "CheckChangeTodoHasOwner")

CheckChangeTodoHasOwner ==
    /\ ppc = "CheckChangeTodoHasOwner"
    /\ LET file_filter == MakeFileFilter({}, {})
       IN  Called("CheckChangeTodoHasOwner", file_filter,
                  Report("CheckChangeTodoHasOwner", "PresubmitPromptWarning",
                         Having("todo", AffectedSourceFiles(file_filter))),
                  "CheckChangeHasNoStrayWhitespace")

CheckChangeHasNoStrayWhitespace ==
    /\ ppc = "CheckChangeHasNoStrayWhitespace"
    /\ LET file_filter == MakeFileFilter({}, {})
       IN  Called("CheckChangeHasNoStrayWhitespace", file_filter,
                  Report("CheckChangeHasNoStrayWhitespace", "PresubmitPromptWarning",
                         Having("whitespace", AffectedSourceFiles(file_filter))),
                  "CheckChangeHasNoTabs")

\* The filter CheckChange passes to CheckChangeHasNoTabs: file_filter is
\* built from IGNORE_TABS, and the call is made without it.
TabsFilterArgument ==
    LET file_filter == MakeFileFilter({}, IGNORE_TABS)
    IN  NoFilter

\* CheckChangeHasNoTabs: it ignores makefiles; called without a filter it
\* uses the default filter of the InputApi, which lets through the files
\* whose extension is on a list of its own.
CheckChangeHasNoTabs ==
    /\ ppc = "CheckChangeHasNoTabs"
    /\ \E default_white_list \in SUBSET Exts :
          LET arg == TabsFilterArgument
              filter == IF arg.given THEN arg
                        ELSE [given |-> FALSE,
                              white_list |-> {ExtPattern(e) : e \in default_white_list},
                              black_list |-> {EmptyPath}]
          IN  Called("CheckChangeHasNoTabs", arg,
                     Report("CheckChangeHasNoTabs", "PresubmitPromptWarning",
                            Having("tab", {f \in AffectedSourceFiles(filter) :
                                                f.ext # "mk"})),
                     "CheckBannedGoAPIs")

\* Both entry points going on to the non-ASCII check.
ReturnToUpload(h) == "CheckChangeOnUpload"

\* Where CheckChange is called from: it returns to that entry point.
ReturnTo(h) ==
    IF h = "upload" THEN "CheckChangeOnUpload" ELSE "CheckChangeOnCommit"

\* _CheckBannedGoAPIs, the last check of CheckChange, which then returns.
CheckBannedGoAPIs ==
    /\ ppc = "CheckBannedGoAPIs"
    /\ LET file_filter == MakeFileFilter({"go"}, {})
       IN  Called("CheckBannedGoAPIs", file_filter,
                  Report("CheckBannedGoAPIs", "PresubmitPromptWarning",
                         Having("banned", AffectedSourceFiles(file_filter))),
                  ReturnTo(hook))

\* _CheckNonAscii: one warning when a file with one of FILE_EXTENSIONS has a
\* line that is not ASCII.
CheckNonAscii ==
    LET file_filter == MakeFileFilter(FILE_EXTENSIONS, {})
    IN  Report("CheckNonAscii", "PresubmitPromptWarning",
               Having("nonascii", AffectedSourceFiles(file_filter)))

\* CheckChangeOnUpload, after CheckChange: results.extend(_CheckNonAscii(...))
CheckChangeOnUpload ==
    /\ ppc = "CheckChangeOnUpload"
    /\ results' = results \o CheckNonAscii
    /\ ppc' = "done"
    /\ UNCHANGED <<hook, change, calls>>
    /\ UNCHANGED <<builder, attempts, pc, i, exc, target, env, pending, raised, log>>

\* CheckChangeOnCommit, after CheckChange: return results
CheckChangeOnCommit ==
    /\ ppc = "CheckChangeOnCommit"
    /\ ppc' = "done"
    /\ UNCHANGED <<hook, change, calls, results>>
    /\ UNCHANGED <<builder, attempts, pc, i, exc, target, env, pending, raised, log>>

\* A change of at most MaxFiles files is uploaded or committed.
InitPresubmit ==
    /\ hook \in {"upload", "commit"}
    /\ change \in Changes(MaxFiles)
    /\ ppc = "RunPylint"
    /\ results = <<>>
    /\ calls = <<>>
    /\ builder = {}
    /\ attempts = GoModAttempts
    /\ pc = "idle"
    /\ i = 0
    /\ exc = None
    /\ target = 1
    /\ env = BaseEnv
    /\ pending = None
    /\ raised = None
    /\ log = <<>>

NextPresubmit ==
    \/ RunPylint
    \/ CheckLongLines
    \/ CheckChangeTodoHasOwner
    \/ CheckChangeHasNoStrayWhitespace
    \/ CheckChangeHasNoTabs
    \/ CheckBannedGoAPIs
    \/ CheckChangeOnUpload
    \/ CheckChangeOnCommit

SpecPresubmit == InitPresubmit /\ [][NextPresubmit]_vars

-----------------------------------------------------------------------------
(* Reading the log *)

Executed(name) == \E k \in DOMAIN log : log[k].name = name

Succeeded(name) == \E k \in DOMAIN log : log[k].name = name /\ log[k].ok

Failed(name) == \E k \in DOMAIN log : log[k].name = name /\ ~log[k].ok

Count(name) == Cardinality({k \in DOMAIN log : log[k].name = name})

AllOk == \A k \in DOMAIN log : log[k].ok

StepNames == [k \in DOMAIN log |-> log[k].name]

\* Entry k of the log is an attempt of 'go mod download' that retry follows
\* with another attempt when it fails.
NonFinalAttempt(k) ==
    log[k].name = "go mod download" /\ log[k].attempt < attempts

\* The step of entry k ended well: the entry succeeded, or it is an attempt
\* of 'go mod download' and a later attempt succeeded.
StepSucceeded(k) ==
    \/ log[k].ok
    \/ /\ log[k].name = "go mod download"
       /\ \E j \in DOMAIN log : j > k /\ log[j].name = "go mod download" /\ log[j].ok

Done == pc = "done"

-----------------------------------------------------------------------------
(* C1 *)

\* C1: once a step has failed, other than an attempt of 'go mod download'
\* that retry will repeat, every step executed later in the run is
\* 'stop the cloud emulators'.
C1_HaltAfterFailure ==
    \A j \in DOMAIN log :
        (~log[j].ok /\ ~NonFinalAttempt(j)) =>
            \A k \in DOMAIN log :
                k > j => log[k].name = "stop the cloud emulators"

\* 'run_unittests' failed, the finally clause stopped the emulators, and the
\* run is over with nothing after it.
C1_Witness ==
    /\ Done
    /\ Len(log) >= 2
    /\ log[Len(log) - 1].name = "run_unittests" /\ ~log[Len(log) - 1].ok
    /\ log[Len(log)].name = "stop the cloud emulators" /\ log[Len(log)].ok

-----------------------------------------------------------------------------
(* C2 *)

\* C2: in a finished run in which 'start the cloud emulators' succeeded,
\* 'stop the cloud emulators' has been executed exactly once.
C2_StartedEmulatorsAreStopped ==
    (Done /\ Succeeded("start the cloud emulators")) =>
        Count("stop the cloud emulators") = 1

-----------------------------------------------------------------------------
(* C3 *)

\* The entries of the log that are attempts of 'go mod download'.
Downloads == {k \in DOMAIN log : log[k].name = "go mod download"}

\* retry has been left: by its return, or by the exception of its else clause.
RetryLeft ==
    \/ Executed(InstallName(install_targets[1]))
    \/ pc = "go install"
    \/ (Done /\ Downloads # {} /\ log[Len(log)].name = "go mod download")

\* C3: for attempts >= 1, retry executes the step once per iteration, at most
\* `attempts` times, and never after a success; when attempt k succeeds retry
\* returns with no exception and RunSteps goes on to the next step; when all
\* `attempts` attempts fail the exception of the last attempt is raised.
C3_RetryContract ==
    attempts >= 1 =>
        /\ Cardinality(Downloads) <= attempts
        /\ \A k \in Downloads :
              /\ log[k].attempt = Cardinality({j \in Downloads : j <= k})
              /\ log[k].ok => \A j \in Downloads : j <= k
        /\ \A k \in Downloads :
              (log[k].ok /\ k = Len(log)) => (pc = "go install" /\ raised = None)
        /\ RetryLeft =>
              \/ \E k \in Downloads : log[k].ok
              \/ /\ Cardinality(Downloads) = attempts
                 /\ Done
                 /\ raised = StepFailure("go mod download", attempts)

\* Two attempts failed and the third succeeded, of four allowed: retry has
\* returned and RunSteps is about to install the first target.
C3_Witness ==
    /\ attempts = 4
    /\ Cardinality(Downloads) = 3
    /\ log[Len(log)].name = "go mod download"
    /\ log[Len(log)].ok /\ log[Len(log)].attempt = 3
    /\ ~log[Len(log) - 1].ok /\ ~log[Len(log) - 2].ok
    /\ pc = "go install"

-----------------------------------------------------------------------------
(* C4 *)

\* The log entries of the main step.
MainSteps == {k \in DOMAIN log : log[k].name \in {"make all", "run_unittests"}}

\* The test-size flags the builder name selects, by precedence.
SizeFlags(b) ==
    CASE "Race" \in b -> <<"--race", "--large", "--medium", "--small">>
      [] "Race" \notin b /\ "Large" \in b -> <<"--large">>
      [] {"Race", "Large"} \cap b = {} /\ "Medium" \in b -> <<"--medium">>
      [] {"Race", "Large", "Medium"} \cap b = {} -> <<"--small">>

\* C4: at most one main step is executed, exactly one once control is past
\* it; it is 'make all' iff the name contains 'Build', and otherwise
\* 'run_unittests' with the flags of the first of Race, Large, Medium that
\* the name contains, --small when it contains none.
C4_BranchSelection ==
    /\ Cardinality(MainSteps) <= 1
    /\ (pc \in {"stop the cloud emulators", "git diff go.mod"}
            \/ Executed("git diff go.mod")) => Cardinality(MainSteps) = 1
    /\ \A k \in MainSteps :
          IF "Build" \in builder
          THEN log[k].name = "make all" /\ log[k].cmd = <<"make", "all">>
          ELSE /\ log[k].name = "run_unittests"
               /\ log[k].cmd = <<"go", "run", "./run_unittests.go", "--alsologtostderr">>
                                   \o SizeFlags(builder)

\* A name with 'Large', 'Medium' and 'Small' ran the tests with --large only.
C4_Witness ==
    /\ builder = {"Large", "Medium", "Small"}
    /\ \E k \in DOMAIN log :
          /\ log[k].name = "run_unittests"
          /\ log[k].cmd[Len(log[k].cmd)] = "--large"

-----------------------------------------------------------------------------
(* C5 *)

\* Builder 'Infra-PerCommit-Large', and 'go mod download' failed three times.
LargeDownloadFailed ==
    /\ builder = {"Large"}
    /\ Done
    /\ Cardinality({k \in Downloads : ~log[k].ok}) = 3

\* C5 as stated: the run ends Failed and the emulators were both started and
\* stopped.
C5_Original ==
    LargeDownloadFailed =>
        /\ raised # None
        /\ Executed("start the cloud emulators")
        /\ Executed("stop the cloud emulators")

\* C5, amended: the run ends Failed with the failure of the third attempt,
\* and the emulators were neither started nor stopped.
C5_DownloadFailureEndsRun ==
    LargeDownloadFailed =>
        /\ raised = StepFailure("go mod download", 3)
        /\ ~Executed("start the cloud emulators")
        /\ ~Executed("stop the cloud emulators")

C5_Witness == LargeDownloadFailed

-----------------------------------------------------------------------------
(* C6 *)

\* The declared order of the steps for a builder, the emulator stop step
\* being declared in the finally clause of 'run_unittests' only.
DeclaredOrder(b) ==
    <<"git init", "git add", "git commit", "which go", "go mod download">>
    \o [t \in 1 .. 7 |-> "go install " \o install_targets[t]]
    \o (IF "Large" \in b \/ "Race" \in b THEN <<"start the cloud emulators">> ELSE <<>>)
    \o (IF "Build" \in b THEN <<"make all">> ELSE <<"run_unittests">>)
    \o (IF "Build" \notin b /\ ("Large" \in b \/ "Race" \in b)
        THEN <<"stop the cloud emulators">> ELSE <<>>)
    \o <<"git diff go.mod">>

\* C6: a finished run in which every executed step succeeded returned
\* normally, and the steps it executed are the declared ones in the declared
\* order, 'go mod download' once and 'git diff go.mod' last.
C6_AllSucceedInDeclaredOrder ==
    (Done /\ AllOk) =>
        /\ raised = None
        /\ StepNames = DeclaredOrder(builder)

\* A Race builder finished with every step successful.
C6_Witness ==
    /\ Done /\ AllOk
    /\ builder = {"Race"}
    /\ Executed("stop the cloud emulators")

-----------------------------------------------------------------------------
(* C7 *)

\* C7: when 'run_unittests' and then 'stop the cloud emulators' fail, the
\* failure that leaves the run is that of 'run_unittests'; when only the
\* stop step fails, it is that of the stop step.
C7_FirstFailureWins ==
    Done =>
        /\ (Failed("run_unittests") /\ Failed("stop the cloud emulators"))
              => raised = StepFailure("run_unittests", 1)
        /\ (Succeeded("run_unittests") /\ Failed("stop the cloud emulators"))
              => raised = StepFailure("stop the cloud emulators", 1)

-----------------------------------------------------------------------------
(* C8 *)

\* C8: a builder whose name has neither 'Large' nor 'Race' never starts or
\* stops the emulators; a Build builder all of whose steps succeeded has
\* executed no cleanup step and returned normally.
C8_EmulatorsOnlyForLargeRace ==
    /\ ("Large" \notin builder /\ "Race" \notin builder) =>
          /\ ~Executed("start the cloud emulators")
          /\ ~Executed("stop the cloud emulators")
    /\ ("Build" \in builder /\ Done /\ AllOk) =>
          /\ ~Executed("stop the cloud emulators")
          /\ raised = None

\* A Small builder ran its tests, and the run is over.
C8_Witness ==
    /\ builder = {"Small"}
    /\ Done
    /\ Executed("run_unittests")

-----------------------------------------------------------------------------
(* C9 *)

\* C9: 'git diff go.mod' is the last step whenever it is executed, and every
\* step before it succeeded; a finished run executed it iff every other step
\* it executed succeeded; and when it failed the run ended with its failure.
C9_PostCheck ==
    /\ \A k \in DOMAIN log :
          log[k].name = "git diff go.mod" =>
              /\ k = Len(log)
              /\ \A j \in 1 .. (k - 1) : StepSucceeded(j)
    /\ Done =>
          (Executed("git diff go.mod") <=>
              \A j \in DOMAIN log :
                  log[j].name # "git diff go.mod" => StepSucceeded(j))
    /\ Failed("git diff go.mod") =>
          (Done /\ raised = StepFailure("git diff go.mod", 1))

\* The post-check ran after a retried download and an emulator stop, and failed.
C9_Witness ==
    /\ Failed("git diff go.mod")
    /\ Failed("go mod download")
    /\ Succeeded("stop the cloud emulators")

-----------------------------------------------------------------------------
(* C10 *)

\* C10: every run reaches its end, where RunSteps has either returned or
\* raised the StepFailure of one step, and no step is executed after that.
C10_Terminates ==
    /\ <>Done
    /\ [](Done => /\ raised.type \in {"None", "StepFailure"}
                  /\ pending = None
                  /\ ~ENABLED Next)
    /\ [][Done => log' = log]_vars

\* A run that ended with the failure of the cleanup step.
C10_Witness ==
    /\ Done
    /\ raised = StepFailure("stop the cloud emulators", 1)
    /\ Succeeded("run_unittests")

-----------------------------------------------------------------------------
(* C12 *)

\* C12: every step other than 'go mod download' is executed at most once,
\* 'go mod download' at most 3 times, and never again after an attempt of it
\* has succeeded.
C12_OnlyDownloadIsRetried ==
    /\ \A j, k \in DOMAIN log :
          (log[j].name = log[k].name /\ log[j].name # "go mod download") => j = k
    /\ Cardinality(Downloads) <= 3
    /\ \A j, k \in Downloads : (log[j].ok /\ k >= j) => k = j

\* The download succeeded on its third attempt and the run went on.
C12_Witness ==
    /\ Cardinality(Downloads) = 3
    /\ Succeeded("go mod download")
    /\ Succeeded("git commit")
    /\ Executed(InstallName(install_targets[7]))

-----------------------------------------------------------------------------
(* C13 *)

\* C13: retry called with attempts = 0 never executes the step and never
\* returns: control does not reach the steps after it, and once retry has
\* been entered and left, the run is over with an error raised.
C13_ZeroAttemptsRaises ==
    attempts = 0 =>
        /\ ~Executed("go mod download")
        /\ pc \in {"git init", "git add", "git commit", "which go",
                   "go mod download", "done"}
        /\ \A k \in DOMAIN log :
              log[k].name \in {"git init", "git add", "git commit", "which go"}
        /\ (Done /\ Succeeded("which go")) => raised = TypeError

\* retry was called with attempts = 0 and the run has ended in its error.
C13_Witness ==
    /\ attempts = 0
    /\ Done
    /\ Succeeded("which go")
    /\ raised # None

-----------------------------------------------------------------------------
(* C14 *)

\* The emulator-host variables set in the environment a step ran with, each
\* pointing at a local port.
EmulatorHosts(e) ==
    {k \in DOMAIN e \ {"PATH"} :
        e[k] \in {"localhost:8891", "localhost:8892", "localhost:8893",
                  "localhost:8894", "localhost:8895"}}

\* The main step and the emulator stop step.
IsTestStep(name) ==
    name \in {"make all", "run_unittests", "stop the cloud emulators"}

\* The environment of the main step and of the stop step has emulator-host
\* variables iff the builder name has 'Large' or 'Race', n of them when it
\* has, each with a port of its own; every other step runs with none.
EmulatorEnvironment(n) ==
    \A k \in DOMAIN log :
        IF IsTestStep(log[k].name)
        THEN /\ EmulatorHosts(log[k].env) # {}
                    <=> ("Large" \in builder \/ "Race" \in builder)
             /\ EmulatorHosts(log[k].env) # {} =>
                    /\ Cardinality(EmulatorHosts(log[k].env)) = n
                    /\ \A a, b \in EmulatorHosts(log[k].env) :
                          log[k].env[a] = log[k].env[b] => a = b
        ELSE EmulatorHosts(log[k].env) = {}

\* C14 as stated: exactly four emulator-host variables are injected.
C14_Original == EmulatorEnvironment(4)

\* C14, amended: exactly five emulator-host variables are injected
\* (datastore, bigtable, pubsub, firestore and cockroachdb).
C14_FiveEmulatorHosts == EmulatorEnvironment(5)

\* A Race builder stopped the emulators with the emulator hosts in the
\* environment, after starting them without.
C14_Witness ==
    /\ builder = {"Race"}
    /\ \E j, k \in DOMAIN log :
          /\ log[j].name = "start the cloud emulators"
          /\ EmulatorHosts(log[j].env) = {}
          /\ log[k].name = "stop the cloud emulators"
          /\ EmulatorHosts(log[k].env) # {}

-----------------------------------------------------------------------------
(* C15 *)

\* The PATH segments the recipe adds, in the order it adds them.
AddedSegments ==
    <<"[START_DIR]/go/go/bin",
      "[START_DIR]/cache/gopath/bin",
      "[START_DIR]/gcloud_linux/bin",
      "[START_DIR]/protoc/bin",
      "[START_DIR]/node/node/bin",
      "[START_DIR]/cockroachdb",
      "[START_DIR]/recipe_bundle/depot_tools">>

IsAdded(seg) == seg # "%(PATH)s"

IsPrefix(a, b) == Len(a) <= Len(b) /\ a = SubSeq(b, 1, Len(a))

\* The log entries that ran with the composed environment.
WithPath == {k \in DOMAIN log : "PATH" \in DOMAIN log[k].env}

\* The added segments of the PATH of every step are in their order of addition.
AddedInOrder ==
    \A k \in WithPath :
        IsPrefix(SelectSeq(log[k].env["PATH"], IsAdded), AddedSegments)

\* C15 as stated: every added segment comes before the '%(PATH)s' placeholder.
C15_Original ==
    /\ AddedInOrder
    /\ \A k \in WithPath :
          \A a, b \in DOMAIN log[k].env["PATH"] :
              (log[k].env["PATH"][a] # "%(PATH)s" /\ log[k].env["PATH"][b] = "%(PATH)s")
                  => a < b

\* C15, amended: the six segments of the initial PATH come before the
\* placeholder in their order of addition; depot_tools, added last and only
\* for the main step and the stop step, comes after the placeholder.
C15_PathComposition ==
    /\ AddedInOrder
    /\ \A k \in WithPath :
          LET path == log[k].env["PATH"]
          IN  /\ SubSeq(path, 1, 7) = SubSeq(AddedSegments, 1, 6) \o <<"%(PATH)s">>
              /\ IF IsTestStep(log[k].name)
                 THEN path = SubSeq(path, 1, 7) \o <<AddedSegments[7]>>
                 ELSE Len(path) = 7

\* The tests ran with depot_tools on their PATH.
C15_Witness ==
    \E k \in WithPath :
        /\ log[k].name = "run_unittests"
        /\ Len(log[k].env["PATH"]) = 8

-----------------------------------------------------------------------------
(* C16 *)

\* C16: 'stop the cloud emulators' is executed at most once, and only after
\* a successful 'start the cloud emulators' earlier in the run.
C16_StopOnlyAfterStart ==
    /\ Count("stop the cloud emulators") <= 1
    /\ \A k \in DOMAIN log :
          log[k].name = "stop the cloud emulators" =>
              \E j \in 1 .. (k - 1) :
                  log[j].name = "start the cloud emulators" /\ log[j].ok

\* The emulators were stopped and the post-check is next.
C16_Witness ==
    /\ Executed("stop the cloud emulators")
    /\ pc = "git diff go.mod"

-----------------------------------------------------------------------------
(* C17 *)

\* The names of a log with the repeated attempts of 'go mod download'
\* counted once.
RECURSIVE DistinctSteps(_)
DistinctSteps(l) ==
    IF l = <<>> THEN <<>>
    ELSE LET rest == DistinctSteps(SubSeq(l, 1, Len(l) - 1))
             last == l[Len(l)].name
         IN  IF rest # <<>> /\ rest[Len(rest)] = last /\ last = "go mod download"
             THEN rest
             ELSE Append(rest, last)

\* C17: the distinct steps executed so far are a prefix of the builder's
\* all-success sequence, and every step executed has only succeeded steps
\* before it, except that 'stop the cloud emulators' may follow a failed
\* 'run_unittests'.
C17_PrefixOfDeclaredOrder ==
    /\ IsPrefix(DistinctSteps(log), DeclaredOrder(builder))
    /\ \A k \in DOMAIN log :
          \A j \in 1 .. (k - 1) :
              \/ StepSucceeded(j)
              \/ log[j].name = "go mod download" /\ log[k].name = "go mod download"
              \/ log[j].name = "run_unittests"
                    /\ log[k].name = "stop the cloud emulators"

\* The emulators were stopped after a failed 'run_unittests' that followed a
\* retried download.
C17_Witness ==
    /\ Failed("go mod download")
    /\ Failed("run_unittests")
    /\ Executed("stop the cloud emulators")

-----------------------------------------------------------------------------
(* C11 *)

IsNonAsciiWarning(r) == r.check = "CheckNonAscii"

IsCheckChangeResult(r) == r.check # "CheckNonAscii"

\* The files of the change in which the non-ASCII check finds something.
NonAsciiFiles ==
    {f \in change : f.ext \in {"py", "js"} /\ "nonascii" \in f.has}

\* C11: the non-ASCII warning is never among the results of CheckChange nor
\* of CheckChangeOnCommit; CheckChange makes the same six checks for both
\* entry points; and the results of CheckChangeOnUpload are those of
\* CheckChange followed by the result of the non-ASCII check, one warning
\* naming the files with non-ASCII lines when there are any.
C11_NonAsciiOnUploadOnly ==
    /\ (hook = "commit" \/ ppc # "done") => SelectSeq(results, IsNonAsciiWarning) = <<>>
    /\ ppc = "done" =>
          /\ [k \in DOMAIN calls |-> calls[k].check]
                = <<"RunPylint", "CheckLongLines", "CheckChangeTodoHasOwner",
                    "CheckChangeHasNoStrayWhitespace", "CheckChangeHasNoTabs",
                    "CheckBannedGoAPIs">>
          /\ hook = "upload" =>
                results = SelectSeq(results, IsCheckChangeResult)
                          \o (IF NonAsciiFiles = {} THEN <<>>
                              ELSE <<[check |-> "CheckNonAscii",
                                      kind |-> "PresubmitPromptWarning",
                                      files |-> NonAsciiFiles]>>)

\* An upload ended with a result of CheckChange followed by the non-ASCII
\* warning.
C11_Witness ==
    /\ hook = "upload"
    /\ ppc = "done"
    /\ Len(results) >= 2
    /\ IsNonAsciiWarning(results[Len(results)])

-----------------------------------------------------------------------------
(* C18 *)

\* The files a call of CheckChangeHasNoTabs reported.
TabFiles ==
    UNION {results[k].files : k \in {j \in DOMAIN results :
                                        results[j].check = "CheckChangeHasNoTabs"}}

\* C18: CheckChangeHasNoTabs is called with the filter built from
\* IGNORE_TABS, so that no Go file is reported for its tabs and every other
\* file with a tab, makefiles aside, is.
C18_TabsFilterExemptsGo ==
    \A k \in DOMAIN calls :
        calls[k].check = "CheckChangeHasNoTabs" =>
            /\ calls[k].source_file_filter
                  = [given |-> TRUE, white_list |-> {AnyPath},
                     black_list |-> {ExtPattern("go")}]
            /\ \A f \in change :
                  ("tab" \in f.has /\ f.ext \notin {"go", "mk"}) <=> f \in TabFiles

====
